---- MODULE Spec2Model ----
(***************************************************************************)
(* Model of src/lint-workflow/lint.py: the workflow linter.                *)
(*                                                                         *)
(* Python strings are sequences of one-character strings, so that split,   *)
(* substring search, count and int(s, 16) are computed as the code         *)
(* computes them.  A mapping (dict) is a record whose DOMAIN holds exactly *)
(* the keys that are present, so `"uses" in step` is "uses" \in DOMAIN.    *)
(* jobs, an insertion-ordered dict, is a sequence; job_key is the index.   *)
(***************************************************************************)
EXTENDS Integers, Sequences, FiniteSets, TLC

(***************************************************************************)
(* String helpers (Python str methods used by lint.py)                     *)
(***************************************************************************)

\* `sub in s` for strings
Contains(s, sub) ==
    \E k \in 0..(Len(s) - Len(sub)) : SubSeq(s, k + 1, k + Len(sub)) = sub

\* position of the first occurrence of the character c in s, 0 when absent
RECURSIVE FindChar(_, _, _)
FindChar(s, c, from) ==
    IF from > Len(s) THEN 0
    ELSE IF s[from] = c THEN from
    ELSE FindChar(s, c, from + 1)

\* s.split(sep, maxsplit) for a one-character sep; maxsplit = -1 is no limit
RECURSIVE SplitMax(_, _, _)
SplitMax(s, sep, maxsplit) ==
    LET k == FindChar(s, sep, 1) IN
    IF maxsplit = 0 \/ k = 0 THEN <<s>>
    ELSE <<SubSeq(s, 1, k - 1)>>
         \o SplitMax(SubSeq(s, k + 1, Len(s)), sep,
                     IF maxsplit < 0 THEN maxsplit ELSE maxsplit - 1)

\* s.split(sep)
Split(s, sep) == SplitMax(s, sep, -1)

\* s.count(c) for a one-character c
RECURSIVE Count(_, _)
Count(s, c) ==
    IF s = <<>> THEN 0
    ELSE (IF Head(s) = c THEN 1 ELSE 0) + Count(Tail(s), c)

UpperChars ==
    {"A", "B", "C", "D", "E", "F", "G", "H", "I", "J", "K", "L", "M",
     "N", "O", "P", "Q", "R", "S", "T", "U", "V", "W", "X", "Y", "Z"}

\* c.isupper() for a one-character string
IsUpper(c) == c \in UpperChars

(***************************************************************************)
(* int(s, 16): succeeds or raises ValueError                               *)
(***************************************************************************)

HexDigits ==
    {"0", "1", "2", "3", "4", "5", "6", "7", "8", "9",
     "a", "b", "c", "d", "e", "f", "A", "B", "C", "D", "E", "F"}

Whitespace == {" ", "\n", "\t"}

RECURSIVE LStrip(_)
LStrip(s) ==
    IF s # <<>> /\ Head(s) \in Whitespace THEN LStrip(Tail(s)) ELSE s

RECURSIVE RStrip(_)
RStrip(s) ==
    IF s # <<>> /\ s[Len(s)] \in Whitespace
    THEN RStrip(SubSeq(s, 1, Len(s) - 1)) ELSE s

\* the digit part: hex digits, single underscores only between two digits
DigitsOk(s) ==
    /\ s # <<>>
    /\ \A k \in 1..Len(s) :
          \/ s[k] \in HexDigits
          \/ /\ s[k] = "_"
             /\ k > 1 /\ k < Len(s)
             /\ s[k - 1] \in HexDigits
             /\ s[k + 1] \in HexDigits

\* TRUE iff int(s, 16) returns; FALSE iff it raises ValueError.
\* Surrounding whitespace is stripped, one sign and one 0x/0X prefix
\* (optionally followed by one underscore) are accepted.
IntBase16Ok(s) ==
    LET t == RStrip(LStrip(s))
        u == IF t # <<>> /\ t[1] \in {"+", "-"} THEN Tail(t) ELSE t
        p == Len(u) >= 2 /\ u[1] = "0" /\ u[2] \in {"x", "X"}
        v == IF p THEN SubSeq(u, 3, Len(u)) ELSE u
        w == IF p /\ v # <<>> /\ v[1] = "_" THEN Tail(v) ELSE v
    IN DigitsOk(w)

(***************************************************************************)
(* Literals of the source                                                  *)
(***************************************************************************)

\* PROBLEM_LEVELS
PROBLEM_LEVELS == [warning |-> 1, error |-> 2]

\* "bitwarden", the internal organisation tested with `in path`
Bitwarden == <<"b", "i", "t", "w", "a", "r", "d", "e", "n">>

\* "./", the local marker tested with `in action_id`
LocalMarker == <<".", "/">>

\* "-latest", the floating-runner marker
LatestMarker == <<"-", "l", "a", "t", "e", "s", "t">>

\* the length a SHA1 hash must have
HashLen == 40

UrlGithub ==
    <<"h", "t", "t", "p", "s", ":", "/", "/", "g", "i", "t", "h", "u", "b",
      ".", "c", "o", "m", "/">>

UrlCommit == <<"/", "c", "o", "m", "m", "i", "t", "/">>

(***************************************************************************)
(* The registry: outcomes of http.request and the JSON bodies              *)
(*                                                                         *)
(* An outcome is either an exception raised by http.request (transport     *)
(* failure) or a response with status, reason and data.  data is the       *)
(* value of json.loads(r.data): [t |-> "dict", v |-> record] or            *)
(* [t |-> "list", v |-> sequence].                                         *)
(***************************************************************************)

TransportError == [kind |-> "exception"]

Response(status, reason, data) ==
    [kind |-> "response", status |-> status, reason |-> reason, data |-> data]

JsonDict(v) == [t |-> "dict", v |-> v]
JsonList(v) == [t |-> "list", v |-> v]

\* the body of every non-success answer of the registry
ErrorBody == JsonDict([message |-> "error"])

\* the non-success answers
FailureResponses ==
    { Response(403, "rate limit exceeded", ErrorBody),
      Response(403, "Forbidden", ErrorBody),
      Response(401, "Unauthorized", ErrorBody),
      Response(404, "Not Found", ErrorBody),
      Response(500, "Internal Server Error", ErrorBody) }

FailureOutcomes == {TransportError} \cup FailureResponses

\* the newest commit the registry knows, different from any pinned revision
LatestSha ==
    <<"8", "f", "4", "b", "7", "f", "8", "4", "8", "6", "4", "4", "8", "4",
      "a", "7", "b", "f", "3", "1", "7", "6", "6", "a", "b", "e", "9", "2",
      "0", "4", "d", "a", "3", "c", "b", "e", "6", "5", "b", "3">>

\* GET /repos/{owner}/{repo}
RepoOutcomes ==
    FailureOutcomes \cup {Response(200, "OK", JsonDict([id |-> 1]))}

\* GET /repos/{owner}/{repo}/commits?path=...: a list of commits, newest
\* first, empty when nothing touched the path
CommitsOutcomes(pinned) ==
    FailureOutcomes
    \cup {Response(200, "OK", JsonList(l)) :
             l \in {<<>>, <<[sha |-> pinned]>>, <<[sha |-> LatestSha]>>}}

\* GET /repos/{path}/releases/latest
ReleaseOutcomes ==
    FailureOutcomes
    \cup {Response(200, "OK", JsonDict([tag_name |-> "v1"]))}

\* GET /repos/{path}/git/ref/tags/{tag_name}: the tag points at a commit or
\* at an annotated tag object
TagRefOutcomes(pinned) ==
    FailureOutcomes
    \cup {Response(200, "OK",
                   JsonDict([object |-> [type |-> "commit", sha |-> s,
                                         url |-> "commit_url"]])) :
             s \in {pinned, LatestSha}}
    \cup {Response(200, "OK",
                   JsonDict([object |-> [type |-> "tag", sha |-> LatestSha,
                                         url |-> "tag_url"]]))}

\* GET {object url}: the annotated tag object
TagObjectOutcomes(pinned) ==
    FailureOutcomes
    \cup {Response(200, "OK",
                   JsonDict([object |-> [type |-> "commit", sha |-> s,
                                         url |-> "commit_url"]])) :
             s \in {pinned, LatestSha}}

\* results of a call: a value, None, or an exception leaving the function
None == [kind |-> "None"]
Raise == [kind |-> "raise"]
Value(v) == [kind |-> "value", v |-> v]

\* get_github_api_response(url, action_id), given what http.request does
get_github_api_response(outcome) ==
    IF outcome.kind = "exception" THEN Raise
    ELSE IF outcome.status = 403 /\ outcome.reason = "rate limit exceeded"
    THEN None
    ELSE IF outcome.status = 401 /\ outcome.reason = "Unauthorized"
    THEN None
    ELSE outcome

\* d[0] and d[key] of a JSON value succeed
HasIndex0(d) == d.t = "list" /\ Len(d.v) >= 1
HasKey(d, key) == d.t = "dict" /\ key \in DOMAIN d.v

\* a registry function that needs the outcome of one more request
Pending == [kind |-> "pending"]

\* get_github_api_response for the n-th request of a function whose requests
\* so far had the outcomes os: Pending when that request is still to be made
ApiResponse(os, n) ==
    IF Len(os) < n THEN Pending ELSE get_github_api_response(os[n])

\* action_repo_exists(action_id); os lists the outcomes of the requests it
\* issues.  ret is Value(TRUE), Value(FALSE) or Raise.
action_repo_exists(action_id, os) ==
    IF Contains(action_id, LocalMarker)
    THEN [ret |-> Value(TRUE), calls |-> <<>>]
    ELSE
      LET path == Split(action_id, "@")[1]
          path_list == SplitMax(path, "/", 2)
          r == ApiResponse(os, 1)
      IN IF Contains(path, Bitwarden) /\ Len(path_list) < 2
         THEN [ret |-> Raise, calls |-> <<>>]
         ELSE IF r = Pending THEN [ret |-> Pending, calls |-> <<>>]
         ELSE IF r = Raise THEN [ret |-> Raise, calls |-> os]
         ELSE IF r = None THEN [ret |-> Value(TRUE), calls |-> os]
         ELSE IF r.status = 404 THEN [ret |-> Value(FALSE), calls |-> os]
         ELSE [ret |-> Value(TRUE), calls |-> os]

\* the f-strings of the update links
CommitUrl(repo_path, sha) == UrlGithub \o repo_path \o UrlCommit \o sha

\* `sha not in hash`, hash being the list of the parts after the first '@'
ShaNotInHash(sha, hash) == \A k \in 1..Len(hash) : hash[k] # sha

\* lines 154-156 and 185-186: the link when sha is not the pinned revision
UpdateFor(repo_path, sha, hash) ==
    IF ShaNotInHash(sha, hash) THEN Value(CommitUrl(repo_path, sha)) ELSE None

\* get_action_update(action_id); os lists the outcomes of the requests it
\* issues, in order.  ret is Value(url), None or Raise.
get_action_update(action_id, os) ==
    IF Contains(action_id, LocalMarker)
    THEN [ret |-> None, calls |-> <<>>]
    ELSE
      LET parts == Split(action_id, "@")
          path == parts[1]
          hash == Tail(parts)
          path_list == SplitMax(path, "/", 2)
          r1 == ApiResponse(os, 1)
          r2 == ApiResponse(os, 2)
          r3 == ApiResponse(os, 3)
          Ret(v) == [ret |-> v, calls |-> os]
      IN
      IF Contains(path, Bitwarden)
      THEN
        IF Len(path_list) < 3 THEN Ret(Raise)
        ELSE IF r1 \in {Pending, Raise, None} THEN Ret(r1)
        ELSE IF ~HasIndex0(r1.data) \/ "sha" \notin DOMAIN r1.data.v[1]
        THEN Ret(Raise)
        ELSE Ret(UpdateFor(path_list[1] \o <<"/">> \o path_list[2],
                           r1.data.v[1].sha, hash))
      ELSE
        IF r1 \in {Pending, Raise, None} THEN Ret(r1)
        ELSE IF ~HasKey(r1.data, "tag_name") THEN Ret(Raise)
        ELSE IF r2 \in {Pending, Raise, None} THEN Ret(r2)
        ELSE IF ~HasKey(r2.data, "object") THEN Ret(Raise)
        ELSE IF r2.data.v.object.type = "commit"
        THEN Ret(UpdateFor(path, r2.data.v.object.sha, hash))
        ELSE IF r3 \in {Pending, Raise, None} THEN Ret(r3)
        ELSE IF ~HasKey(r3.data, "object") THEN Ret(Raise)
        ELSE Ret(UpdateFor(path, r3.data.v.object.sha, hash))

\* the revision a reference pins
PinnedOf(action_id) == Split(action_id, "@")[2]

\* what the registry can answer to the requests of action_repo_exists
ExistsRuns(action_id) ==
    LET one == IF action_repo_exists(action_id, <<>>).ret = Pending
               THEN {<<o>> : o \in RepoOutcomes} ELSE {}
    IN {os \in {<<>>} \cup one : action_repo_exists(action_id, os).ret # Pending}

\* what the registry can answer to the requests of get_action_update
UpdateRuns(action_id) ==
    LET More(S) == {os \in S : get_action_update(action_id, os).ret = Pending}
        first == IF Contains(Split(action_id, "@")[1], Bitwarden)
                 THEN CommitsOutcomes(PinnedOf(action_id))
                 ELSE ReleaseOutcomes
        r0 == {<<>>}
        r1 == {Append(os, o) : os \in More(r0), o \in first}
        r2 == {Append(os, o) : os \in More(r1),
                               o \in TagRefOutcomes(PinnedOf(action_id))}
        r3 == {Append(os, o) : os \in More(r2),
                               o \in TagObjectOutcomes(PinnedOf(action_id))}
    IN (r0 \cup r1 \cup r2 \cup r3) \ More(r0 \cup r1 \cup r2 \cup r3)

(***************************************************************************)
(* Findings and the severity aggregator                                    *)
(***************************************************************************)

\* LintFinding(description, level): msg is the fixed text of the f-string,
\* job_key and i the job and step it names (0 when it names none), arg the
\* value it interpolates (<<>> when none)
LintFinding(msg, level, jk, step_no, arg) ==
    [msg |-> msg, level |-> level, job_key |-> jk, i |-> step_no, arg |-> arg]

\* the fixed texts of the findings of the steps
MsgNot40 ==
    "does not have a valid action hash. (not 40 characters)"
MsgNotHex ==
    "does not have a valid action hash. (not all hexadecimal characters)"
MsgNoRepo ==
    "does not have a valid action path. (missing name of the repository or workflow)"
MsgNoAuthor ==
    "does not have a valid action path. (missing workflow name or the workflow author)"
MsgNonExisting ==
    "uses an non-existing action."
MsgOutdated ==
    "uses an outdated action, consider updating it."
MsgRun ==
    "Run in step should be a single line."
MsgStepNoName ==
    "Name key missing for step."
MsgStepLower ==
    "Name value in step is not capitalized."
\* lines 303-309: the text no path of lint reaches
MsgMissingAt ==
    "does not have a valid action hash. (missing '@' character)"

\* get_max_error_level taking the level of the last finding
get_max_error_level_Last(fs) ==
    IF Len(fs) = 0 THEN 0 ELSE PROBLEM_LEVELS[fs[Len(fs)].level]

\* max(findings, key=...): the first finding whose key is the largest
RECURSIVE MaxByLevel(_, _)
MaxByLevel(fs, best) ==
    IF fs = <<>> THEN best
    ELSE MaxByLevel(Tail(fs),
                    IF PROBLEM_LEVELS[Head(fs).level] > PROBLEM_LEVELS[best.level]
                    THEN Head(fs) ELSE best)

get_max_error_level(fs) ==
    IF Len(fs) = 0 THEN 0
    ELSE LET max_problem == MaxByLevel(Tail(fs), Head(fs))
         IN PROBLEM_LEVELS[max_problem.level]

(***************************************************************************)
(* lint(filename): the rule engine                                         *)
(***************************************************************************)

VARIABLES
    workflow,          \* the document yaml.load returned
    pc,                \* where lint is
    job_key,           \* index of the job of the current loop iteration
    i,                 \* enumerate(steps, start=1) index of the current step
    findings,          \* the list of findings
    exists,            \* what action_repo_exists returned for the current step
    update_available,  \* what get_action_update returned for the current step
    calls,             \* outcomes of the requests of the last registry function
    requests,          \* number of requests issued for the current step
    max_error_level    \* what lint returns

vars == <<workflow, pc, job_key, i, findings, exists, update_available,
          calls, requests, max_error_level>>

Unset == [kind |-> "unset"]

Jobs == IF "jobs" \in DOMAIN workflow THEN workflow.jobs ELSE <<>>

\* job.get("steps", "")
StepsOf(job) == IF "steps" \in DOMAIN job THEN job.steps ELSE <<>>

\* job.get("runs-on", "")
RunnerOf(job) == IF "runs_on" \in DOMAIN job THEN job.runs_on ELSE <<>>

\* lines 198-208
WorkflowNameFindings(w) ==
    IF "name" \notin DOMAIN w
    THEN <<LintFinding("Name key missing for workflow.", "warning", 0, 0, <<>>)>>
    ELSE IF ~IsUpper(w.name[1])
    THEN <<LintFinding("Name value for workflow is not capitalized.",
                       "warning", 0, 0, w.name)>>
    ELSE <<>>

\* lines 217-224
RunnerFindings(job, jk) ==
    IF Contains(RunnerOf(job), LatestMarker)
    THEN <<LintFinding("Runner version needs to be pinned to a version.",
                       "warning", jk, 0, RunnerOf(job))>>
    ELSE <<>>

\* lines 227-240
JobNameFindings(job, jk) ==
    IF "name" \notin DOMAIN job
    THEN <<LintFinding("Name key missing for job key.", "warning", jk, 0, <<>>)>>
    ELSE IF ~IsUpper(job.name[1])
    THEN <<LintFinding("Name value of job key is not capitalized.",
                       "warning", jk, 0, job.name)>>
    ELSE <<>>

\* lines 243-251: one finding per key of env that does not start with "_"
RECURSIVE EnvKeyFindings(_, _)
EnvKeyFindings(keys, jk) ==
    IF keys = <<>> THEN <<>>
    ELSE (IF Head(keys)[1] # "_"
          THEN <<LintFinding("Environment variable does not start with an underscore.",
                             "warning", jk, 0, Head(keys))>>
          ELSE <<>>)
         \o EnvKeyFindings(Tail(keys), jk)

EnvFindings(job, jk) ==
    IF "env" \in DOMAIN job THEN EnvKeyFindings(job.env, jk) ELSE <<>>

\* lines 257-271
StepNameFindings(step, jk, n) ==
    IF "name" \notin DOMAIN step
    THEN <<LintFinding(MsgStepNoName, "warning", jk, n, <<>>)>>
    ELSE IF ~IsUpper(step.name[1])
    THEN <<LintFinding(MsgStepLower,
                       "warning", jk, n, step.name)>>
    ELSE <<>>

\* line 275: `path, hash = step["uses"].split("@")` raises ValueError unless
\* the split gives exactly two parts
SplitOk(uses) == Len(Split(uses, "@")) = 2

\* the hash checks with the hex check skipped once the length check failed
HashFindings_ShortCircuit(hash, jk, n) ==
    IF Len(hash) # HashLen
    THEN <<LintFinding(MsgNot40, "error", jk, n, <<>>)>>
    ELSE IF ~IntBase16Ok(hash)
    THEN <<LintFinding(MsgNotHex, "error", jk, n, <<>>)>>
    ELSE <<>>

\* lines 281-309: the checks of the hash.  Neither len(hash) nor the inner
\* try raises anything the outer bare except could catch, so the
\* "(missing '@' character)" finding of lines 303-309 is never appended.
HashFindings(hash, jk, n) ==
    (IF Len(hash) # HashLen
     THEN <<LintFinding(MsgNot40,
                        "error", jk, n, <<>>)>>
     ELSE <<>>)
    \o
    (IF ~IntBase16Ok(hash)
     THEN <<LintFinding(MsgNotHex,
                        "error", jk, n, <<>>)>>
     ELSE <<>>)

\* lines 312-327: the checks of the path; <<>> when the elif chain goes on to
\* action_repo_exists
PathFindings(path, jk, n) ==
    LET path_list == SplitMax(path, "/", 2) IN
    IF Contains(path, Bitwarden) /\ Len(path_list) < 3
    THEN <<LintFinding(MsgNoRepo,
                       "error", jk, n, <<>>)>>
    ELSE IF Len(path_list) < 2
    THEN <<LintFinding(MsgNoAuthor,
                       "error", jk, n, <<>>)>>
    ELSE <<>>

\* lines 349-356
RunFindings(step, jk, n) ==
    IF "run" \in DOMAIN step /\ Count(step.run, "\n") = 1
    THEN <<LintFinding(MsgRun,
                       "warning", jk, n, <<>>)>>
    ELSE <<>>

CurJob == Jobs[job_key]
CurStep == StepsOf(CurJob)[i]

\* lines 191-208: the checks of the document, then the loop over the jobs
LintWorkflow ==
    /\ pc = "start"
    /\ findings' = findings \o WorkflowNameFindings(workflow)
    /\ pc' = "jobs"
    /\ UNCHANGED <<workflow, job_key, i, exists, update_available, calls,
                   requests, max_error_level>>

\* lines 213-255: the next job of the loop: runner, name and env checks
LintJob ==
    /\ pc = "jobs"
    /\ job_key < Len(Jobs)
    /\ LET jk == job_key + 1
           job == Jobs[jk]
       IN /\ job_key' = jk
          /\ findings' = findings \o RunnerFindings(job, jk)
                                  \o JobNameFindings(job, jk)
                                  \o EnvFindings(job, jk)
          /\ IF StepsOf(job) # <<>>
             THEN pc' = "step" /\ i' = 1
             ELSE pc' = "jobs" /\ i' = 0
    /\ UNCHANGED <<workflow, exists, update_available, calls, requests,
                   max_error_level>>

\* lines 255-327: a step whose `uses`, if any, splits into path and hash
LintStep ==
    /\ pc = "step"
    /\ "uses" \in DOMAIN CurStep => SplitOk(CurStep.uses)
    /\ LET step == CurStep
           named == StepNameFindings(step, job_key, i)
       IN IF "uses" \in DOMAIN step
          THEN LET parts == Split(step.uses, "@")
                   path == parts[1]
                   hash == parts[2]
                   pathf == PathFindings(path, job_key, i)
               IN /\ findings' = findings \o named
                                    \o HashFindings(hash, job_key, i)
                                    \o pathf
                  /\ pc' = IF pathf = <<>> THEN "exists" ELSE "run"
          ELSE /\ findings' = findings \o named
               /\ pc' = "run"
    /\ exists' = Unset
    /\ update_available' = Unset
    /\ calls' = <<>>
    /\ requests' = 0
    /\ UNCHANGED <<workflow, job_key, i, max_error_level>>

\* lines 255-278: a step whose `uses` does not split in two: the ValueError
\* handler logs and breaks out of the loop over the steps of the job
LintStepBreak ==
    /\ pc = "step"
    /\ "uses" \in DOMAIN CurStep
    /\ ~SplitOk(CurStep.uses)
    /\ findings' = findings \o StepNameFindings(CurStep, job_key, i)
    /\ pc' = "jobs"
    /\ exists' = Unset
    /\ update_available' = Unset
    /\ calls' = <<>>
    /\ requests' = 0
    /\ UNCHANGED <<workflow, job_key, i, max_error_level>>

\* the existence lookup with the update lookup made whatever it answered
LintExists_AlwaysUpdate ==
    /\ pc = "exists"
    /\ \E os \in ExistsRuns(CurStep.uses) :
          LET res == action_repo_exists(CurStep.uses, os) IN
          /\ exists' = res.ret
          /\ calls' = res.calls
          /\ requests' = requests + Len(res.calls)
          /\ IF res.ret = Raise
             THEN pc' = "raised" /\ findings' = findings
             ELSE IF res.ret = Value(FALSE)
             THEN /\ findings' = Append(findings,
                       LintFinding(MsgNonExisting, "error",
                                   job_key, i, CurStep.uses))
                  /\ pc' = "update"
             ELSE pc' = "update" /\ findings' = findings
    /\ UNCHANGED <<workflow, job_key, i, update_available, max_error_level>>

\* lines 329-336: the existence lookup
LintExists ==
    /\ pc = "exists"
    /\ \E os \in ExistsRuns(CurStep.uses) :
          LET res == action_repo_exists(CurStep.uses, os) IN
          /\ exists' = res.ret
          /\ calls' = res.calls
          /\ requests' = requests + Len(res.calls)
          /\ IF res.ret = Raise
             THEN pc' = "raised" /\ findings' = findings
             ELSE IF res.ret = Value(FALSE)
             THEN /\ findings' = Append(findings,
                       LintFinding(MsgNonExisting, "error",
                                   job_key, i, CurStep.uses))
                  /\ pc' = "run"
             ELSE pc' = "update" /\ findings' = findings
    /\ UNCHANGED <<workflow, job_key, i, update_available, max_error_level>>

\* lines 337-346: the update lookup
LintUpdate ==
    /\ pc = "update"
    /\ \E os \in UpdateRuns(CurStep.uses) :
          LET res == get_action_update(CurStep.uses, os) IN
          /\ update_available' = res.ret
          /\ calls' = res.calls
          /\ requests' = requests + Len(res.calls)
          /\ IF res.ret = Raise
             THEN pc' = "raised" /\ findings' = findings
             ELSE IF res.ret # None
             THEN /\ findings' = Append(findings,
                       LintFinding(MsgOutdated,
                                   "warning", job_key, i, res.ret.v))
                  /\ pc' = "run"
             ELSE pc' = "run" /\ findings' = findings
    /\ UNCHANGED <<workflow, job_key, i, exists, max_error_level>>

\* lines 348-356, then the next iteration of the loop over the steps
LintRun ==
    /\ pc = "run"
    /\ findings' = findings \o RunFindings(CurStep, job_key, i)
    /\ IF i < Len(StepsOf(CurJob))
       THEN pc' = "step" /\ i' = i + 1
       ELSE pc' = "jobs" /\ i' = i
    /\ UNCHANGED <<workflow, job_key, exists, update_available, calls,
                   requests, max_error_level>>

\* lines 358-366: after the last job
LintReturn ==
    /\ pc = "jobs"
    /\ job_key = Len(Jobs)
    /\ max_error_level' = get_max_error_level(findings)
    /\ pc' = "done"
    /\ UNCHANGED <<workflow, job_key, i, findings, exists, update_available,
                   calls, requests>>

Next ==
    \/ LintWorkflow
    \/ LintJob
    \/ LintStep
    \/ LintStepBreak
    \/ LintExists
    \/ LintUpdate
    \/ LintRun
    \/ LintReturn

(***************************************************************************)
(* Documents                                                               *)
(***************************************************************************)

\* bounds of the documents
MaxJobs == 2
MaxSteps == 2
MaxRev == 2

SomeAction ==
    <<"s", "o", "m", "e", "o", "r", "g", "/", "s", "o", "m", "e", "a", "c",
      "t", "i", "o", "n">>

VersionBump ==
    <<"b", "i", "t", "w", "a", "r", "d", "e", "n", "/", "g", "h", "-", "a",
      "c", "t", "i", "o", "n", "s", "/", "v", "e", "r", "s", "i", "o", "n",
      "-", "b", "u", "m", "p">>

LocalWorkflow ==
    <<".", "/", "l", "o", "c", "a", "l", "/", "w", "o", "r", "k", "f", "l",
      "o", "w", ".", "y", "m", "l">>

\* someorg/bitwarden-sm: an external owner, a repository named after the
\* internal organisation
ExternalNamedInternal ==
    <<"s", "o", "m", "e", "o", "r", "g", "/", "b", "i", "t", "w", "a", "r",
      "d", "e", "n", "-", "s", "m">>

Paths ==
    { SomeAction,
      VersionBump,
      LocalWorkflow,
      ExternalNamedInternal,
      <<"s", "o", "m", "e", "a", "c", "t", "i", "o", "n">>,
      <<"b", "i", "t", "w", "a", "r", "d", "e", "n", "/", "g", "h", "-", "a",
        "c", "t", "i", "o", "n", "s">>,
      <<"b", "i", "t", "w", "a", "r", "d", "e", "n">>,
      <<"s", "o", "m", "e", "o", "r", "g", "/", "r", "e", "p", "o", "/", "s",
        "u", "b", "/", "d", "i", "r">>,
      <<".", "/", "b", "i", "t", "w", "a", "r", "d", "e", "n">>,
      <<>> }

\* 03ad9a873c39cdc95dd8d77dbbda67f84db43945
Sha40 ==
    <<"0", "3", "a", "d", "9", "a", "8", "7", "3", "c", "3", "9", "c", "d",
      "c", "9", "5", "d", "d", "8", "d", "7", "7", "d", "b", "b", "d", "a",
      "6", "7", "f", "8", "4", "d", "b", "4", "3", "9", "4", "5">>

Abc == <<"a", "b", "c">>
Xyz == <<"x", "y", "z">>
Anything == <<"a", "n", "y", "t", "h", "i", "n", "g">>

Revisions == {Sha40, Abc, Xyz, Anything, <<>>}

At == <<"@">>

\* references with one '@', with none and with two
References ==
    {p \o At \o r : p \in Paths, r \in Revisions}
    \cup Paths
    \cup {p \o At \o Abc \o At \o Sha40 : p \in {SomeAction, LocalWorkflow}}

Checkout == <<"C", "h", "e", "c", "k", "o", "u", "t">>
Build == <<"B", "u", "i", "l", "d">>
build == <<"b", "u", "i", "l", "d">>

Run0 == <<"e", "c", "h", "o", " ", "a">>
Run1 == <<"e", "c", "h", "o", " ", "a", "\n">>
Run2 == <<"e", "c", "h", "o", " ", "a", "\n", "e", "c", "h", "o", " ", "b", "\n">>

UbuntuLatest ==
    <<"u", "b", "u", "n", "t", "u", "-", "l", "a", "t", "e", "s", "t">>
Ubuntu2204 ==
    <<"u", "b", "u", "n", "t", "u", "-", "2", "2", ".", "0", "4">>

\* a job header no rule objects to, and one every job rule objects to
CleanHeader ==
    [runs_on |-> Ubuntu2204, name |-> Build,
     env |-> << <<"_", "V", "E", "R", "S", "I", "O", "N">> >>]
DirtyHeader ==
    [runs_on |-> UbuntuLatest,
     env |-> << <<"V", "E", "R", "S", "I", "O", "N">>, <<"_", "X">>,
                <<"P", "A", "T", "H">> >>]
LowerHeader == [name |-> build]

\* the header h with the steps ss; no "steps" key when ss is empty
JobOf(h, ss) ==
    IF ss = <<>> THEN h
    ELSE [k \in DOMAIN h \cup {"steps"} |-> IF k = "steps" THEN ss ELSE h[k]]

\* all sequences over S of length at most n
RECURSIVE SeqsUpTo(_, _)
SeqsUpTo(S, n) ==
    IF n = 0 THEN {<<>>}
    ELSE LET shorter == SeqsUpTo(S, n - 1) IN
         shorter \cup {Append(q, x) : q \in {t \in shorter : Len(t) = n - 1},
                                      x \in S}

\* the steps of the documents of Spec: a reference without '@' next to a
\* run command of one line, a local reference with a short revision next to
\* a run command of one line, a lower-case name with a run command of one
\* line, a reference with a one-segment path and a revision that is not
\* hexadecimal
MixedSteps ==
    { [uses |-> SomeAction, run |-> Run1],
      [uses |-> LocalWorkflow \o At \o Abc, run |-> Run1],
      [name |-> build, run |-> Run1],
      [name |-> Checkout,
       uses |-> <<"s", "o", "m", "e", "a", "c", "t", "i", "o", "n">> \o At \o Xyz] }

Headers == {CleanHeader, DirtyHeader, LowerHeader}

\* the documents of Spec: one job of up to MaxSteps steps, or up to MaxJobs
\* jobs of at most one step; without a name, with a lower-case one and with
\* a capitalized one
Documents ==
    LET long == {<<JobOf(h, ss)>> : h \in Headers,
                                    ss \in SeqsUpTo(MixedSteps, MaxSteps)}
        short == SeqsUpTo({JobOf(h, ss) : h \in Headers,
                                          ss \in SeqsUpTo(MixedSteps, 1)},
                          MaxJobs)
    IN {[name |-> build], [name |-> Build]}
       \cup {[jobs |-> js] : js \in long \cup short}
       \cup {[name |-> Build, jobs |-> js] : js \in long \cup short}
       \cup {[name |-> build, jobs |-> js] : js \in long \cup short}

\* the documents of SpecStep: one job of one step
StepSet ==
    {[run |-> Run0], [name |-> Checkout, run |-> Run1]}
    \cup {[name |-> Checkout, uses |-> u] : u \in References}
    \cup {[uses |-> u, run |-> Run1] : u \in References}

StepDocuments ==
    {[name |-> Build, jobs |-> <<JobOf(h, <<st>>)>>] :
        h \in {CleanHeader, DirtyHeader}, st \in StepSet}

\* the documents of SpecHash: one step whose reference has a revision made
\* of a short prefix followed by hex digits, after a path of one segment,
\* and the references someorg/someaction@abc and @xyz
RevAlphabet == {"a", "g", "0", "x", "_", "+", " ", "@"}

PadLens == {0} \cup ((HashLen - MaxRev - 1)..HashLen)

Pad(n) == [k \in 1..n |-> "a"]

HashRevisions ==
    {q \o Pad(n) : q \in SeqsUpTo(RevAlphabet, MaxRev), n \in PadLens}

HashReferences ==
    {<<"s", "o", "m", "e", "a", "c", "t", "i", "o", "n">> \o At \o r :
        r \in HashRevisions}
    \cup {SomeAction \o At \o r : r \in {Abc, Xyz, Sha40}}

HashDocuments ==
    {[name |-> Build,
      jobs |-> <<JobOf(CleanHeader, <<[name |-> Checkout, uses |-> u]>>)>>] :
        u \in HashReferences}

InitLocals ==
    /\ pc = "start"
    /\ job_key = 0
    /\ i = 0
    /\ findings = <<>>
    /\ exists = Unset
    /\ update_available = Unset
    /\ calls = <<>>
    /\ requests = 0
    /\ max_error_level = 0

Init == workflow \in Documents /\ InitLocals
InitStep == workflow \in StepDocuments /\ InitLocals
InitHash == workflow \in HashDocuments /\ InitLocals

Spec == Init /\ [][Next]_vars
SpecStep == InitStep /\ [][Next]_vars
SpecHash == InitHash /\ [][Next]_vars

(***************************************************************************)
(* Properties                                                              *)
(***************************************************************************)

\* the findings naming step n of job jk, in order
FindingsOf(jk, n) ==
    SelectSeq(findings, LAMBDA f : f.job_key = jk /\ f.i = n)

\* how many findings of fs carry the text msg
CountMsg(fs, msg) == Len(SelectSeq(fs, LAMBDA f : f.msg = msg))

\* how many findings of fs have the level
CountLevel(fs, level) == Len(SelectSeq(fs, LAMBDA f : f.level = level))

Levels(fs) == [k \in DOMAIN fs |-> fs[k].level]

\* the findings of rule 6 (the `uses` reference) among fs
Rule6(fs) ==
    SelectSeq(fs, LAMBDA f : f.msg \in {MsgMissingAt, MsgNot40, MsgNotHex,
                                       MsgNoRepo, MsgNoAuthor,
                                       MsgNonExisting, MsgOutdated})

\* every (job, step) position of the document
Positions ==
    {<<jk, n>> \in (1..Len(Jobs)) \X (1..(MaxSteps + 1)) :
        n <= Len(StepsOf(Jobs[jk]))}

StepAt(pos) == StepsOf(Jobs[pos[1]])[pos[2]]

\* lint is past the reference checks of the current step
AfterUses ==
    /\ pc \in {"exists", "update", "run", "raised"}
    /\ "uses" \in DOMAIN CurStep

\* C1: a step whose `uses` has no '@' gets exactly one error finding, the
\* missing-'@' one, and no length, hex or path finding.
C1_MissingAtOneError ==
    pc = "done" =>
      \A pos \in Positions :
        ("uses" \in DOMAIN StepAt(pos) /\ Count(StepAt(pos).uses, "@") = 0)
        => LET fs == FindingsOf(pos[1], pos[2]) IN
           /\ CountLevel(fs, "error") = 1
           /\ CountMsg(fs, MsgMissingAt) = 1
           /\ \A m \in {MsgNot40, MsgNotHex, MsgNoRepo, MsgNoAuthor} :
                 CountMsg(fs, m) = 0

\* the findings the reference checks of a step can end with, once the path
\* checks passed: what the existence and update lookups add
RegistryFindings(step, jk, n) ==
    { (IF e.ret = Value(FALSE)
       THEN <<LintFinding(MsgNonExisting, "error", jk, n, step.uses)>>
       ELSE IF u.ret # None
       THEN <<LintFinding(MsgOutdated, "warning", jk, n, u.ret.v)>>
       ELSE <<>>) :
        e \in {r \in {action_repo_exists(step.uses, os) :
                        os \in ExistsRuns(step.uses)} : r.ret # Raise},
        u \in {r \in {get_action_update(step.uses, os) :
                        os \in UpdateRuns(step.uses)} : r.ret # Raise} }

\* the finding lists lint gives a document made of this one step
StepAlone(step, jk, n) ==
    LET named == StepNameFindings(step, jk, n)
        runf == RunFindings(step, jk, n)
    IN IF "uses" \notin DOMAIN step THEN {named \o runf}
       ELSE IF ~SplitOk(step.uses) THEN {named}
       ELSE LET parts == Split(step.uses, "@")
                hashf == HashFindings(parts[2], jk, n)
                pathf == PathFindings(parts[1], jk, n)
            IN IF pathf # <<>> THEN {named \o hashf \o pathf \o runf}
               ELSE {named \o hashf \o reg \o runf :
                        reg \in RegistryFindings(step, jk, n)}

\* a step some rule objects to
Violating(step) ==
    \/ ("uses" \in DOMAIN step /\ ~SplitOk(step.uses))
    \/ \E fs \in StepAlone(step, 1, 1) : fs # <<>>

\* pos comes later in the document than earlier
Later(earlier, pos) ==
    \/ earlier[1] < pos[1]
    \/ (earlier[1] = pos[1] /\ earlier[2] < pos[2])

\* C2: the rule engine runs to completion: once a step violated a rule, every
\* later step of the same job and of the later jobs is still evaluated and
\* yields the findings it yields on its own.
C2_RunsToCompletion ==
    pc = "done" =>
      \A earlier \in Positions, pos \in Positions :
        (Violating(StepAt(earlier)) /\ Later(earlier, pos))
        => FindingsOf(pos[1], pos[2]) \in StepAlone(StepAt(pos), pos[1], pos[2])

\* C9: every step with a `run` command gets exactly one single-line warning
\* when the body has exactly one line break and none otherwise, whatever
\* else the step declares.
C9_RunSingleLine ==
    pc = "done" =>
      \A pos \in Positions :
        "run" \in DOMAIN StepAt(pos)
        => CountMsg(FindingsOf(pos[1], pos[2]), MsgRun)
             = (IF Count(StepAt(pos).run, "\n") = 1 THEN 1 ELSE 0)

\* C10: get_max_error_level gives 0 for no finding and otherwise the highest
\* level present, warning (1) below error (2), whatever the order and the
\* number of the findings.
C10_MaxErrorLevel ==
    pc = "done" =>
      /\ (findings = <<>> => max_error_level = 0)
      /\ (findings # <<>> =>
            max_error_level
              = (IF \E k \in DOMAIN findings : findings[k].level = "error"
                 THEN 2 ELSE 1))
      /\ (Levels(findings) = <<"warning", "warning">> => max_error_level = 1)
      /\ (Levels(findings) = <<"warning", "error", "warning">>
            => max_error_level = 2)

\* C10 witness: lint returned for the findings warning, error, warning
C10_Witness ==
    /\ pc = "done"
    /\ Levels(findings) = <<"warning", "error", "warning">>
    /\ max_error_level = 2

\* the revision is a non-empty run of hexadecimal characters
AllHex(h) == h # <<>> /\ \A k \in DOMAIN h : h[k] \in HexDigits

\* the revision has a character int(s, 16) accepts nowhere
HasForeignChar(h) ==
    \E k \in DOMAIN h :
        h[k] \notin HexDigits \cup Whitespace \cup {"x", "X", "_", "+", "-"}

C4_LocalExempt ==
    (pc = "run" /\ "uses" \in DOMAIN CurStep
                /\ Contains(CurStep.uses, LocalMarker))
    => /\ Rule6(FindingsOf(job_key, i)) = <<>>
       /\ exists = Value(TRUE)
       /\ update_available = None
       /\ requests = 0

\* C5: action_repo_exists never raises, and returns false exactly when the
\* registry answered 404.
C5_ExistsNeverRaises ==
    (exists # Unset /\ update_available = Unset)
    => /\ exists # Raise
       /\ exists = Value(FALSE)
            <=> (Len(calls) = 1 /\ calls[1].kind = "response"
                                /\ calls[1].status = 404)

\* a request that failed: no answer, or an answer other than success
FailedCall(o) == o.kind = "exception" \/ o.status # 200

\* C6: get_action_update returns None, without raising, whenever a request
\* of its chain failed.
C6_UpdateNoneOnFailure ==
    (update_available # Unset /\ \E k \in DOMAIN calls : FailedCall(calls[k]))
    => update_available = None

\* C7: for a non-local reference with an '@': an internal owner (first path
\* segment) with fewer than 3 segments gets the missing-repository finding;
\* any other owner gets the missing-author finding exactly when there are
\* fewer than 2 segments, and never the other finding; and once a path
\* finding fired no lookup is made.
C7_OwnerSegments ==
    (AfterUses /\ ~Contains(CurStep.uses, LocalMarker))
    => LET segs == Split(Split(CurStep.uses, "@")[1], "/")
           fs == FindingsOf(job_key, i)
       IN /\ segs[1] = Bitwarden
               => CountMsg(fs, MsgNoRepo) = (IF Len(segs) < 3 THEN 1 ELSE 0)
          /\ segs[1] # Bitwarden
               => /\ CountMsg(fs, MsgNoAuthor)
                       = (IF Len(segs) < 2 THEN 1 ELSE 0)
                  /\ CountMsg(fs, MsgNoRepo) = 0
          /\ CountMsg(fs, MsgNoRepo) + CountMsg(fs, MsgNoAuthor) > 0
               => (exists = Unset /\ update_available = Unset /\ requests = 0)

LowerHexDigits ==
    {"0", "1", "2", "3", "4", "5", "6", "7", "8", "9",
     "a", "b", "c", "d", "e", "f"}

Lower40Hex(h) == Len(h) = 40 /\ \A k \in DOMAIN h : h[k] \in LowerHexDigits

\* enough segments for the owner: 3 for the internal organisation, else 2
SufficientSegments(p) ==
    LET segs == Split(p, "/") IN
    IF segs[1] = Bitwarden THEN Len(segs) >= 3 ELSE Len(segs) >= 2

====
